---- MODULE Spec2Model ----
(***************************************************************************)
(* Model of the availability agent: the LangGraph tool-calling loop of     *)
(* agente.py (consultar_agente, llamar_modelo, decidir_continuar, the      *)
(* compiled workflow) and the four database operations of tools.py.        *)
(*                                                                         *)
(* Text is modelled as a sequence of segments: literal pieces of the       *)
(* source's f-strings (written in ASCII: the emoji and accents of the      *)
(* source are dropped) and the values interpolated between them.  The      *)
(* empty string is <<>> and concatenation is \o.  Exception texts, which   *)
(* the entry point searches for substrings, are sequences of characters.   *)
(***************************************************************************)
EXTENDS Integers, Sequences, FiniteSets, TLC

VARIABLES
    pc,          \* the node the graph runs next ("agent", "tools"), or how
                 \* consultar_agente ended ("returned", "except_returned")
    messages,    \* AgentState['messages']: the conversation (append-only)
    step,        \* graph supersteps executed so far; consultar_agente's
                 \* step_count counts the same updates as they are streamed
    resultado,   \* local variable `resultado` of consultar_agente
    error_msg,   \* str(e) of the exception caught at the entry point
    retorno,     \* what the call of consultar_agente ended with
    llm_calls,   \* number of llm_with_tools.invoke calls made
    db_log,      \* what the database did to each executed request, by request id
    tool_in,     \* arguments and database responses of the last direct tool call
    tool_out,    \* outcome of the last direct tool call
    tool_params  \* parameters of the queries the last direct tool call executed

vars == <<pc, messages, step, resultado, error_msg, retorno,
          llm_calls, db_log, tool_in, tool_out, tool_params>>

agent_vars == <<pc, messages, step, resultado, error_msg, retorno,
                llm_calls, db_log>>

tool_vars == <<tool_in, tool_out, tool_params>>

-----------------------------------------------------------------------------
(* Bounds of the model *)

\* operation requests over one conversation whose content is chosen freely
MaxCalls == 2
\* largest promised-minutes total the promise query answers
MaxPromesa == 6
\* largest outage-minutes total the outage query answers
MaxAfectacion == 8
\* most rows a listing query answers
MaxFilas == 2

-----------------------------------------------------------------------------
(* Values *)

\* Python's None for an optional argument, and a supplied string.
Nada == [def |-> FALSE, val |-> <<>>]

Algo(s) == [def |-> TRUE, val |-> s]

\* Python truthiness of an optional string: None and "" are falsy.
Truthy(x) == x.def /\ x.val # <<>>

\* The text an f-string writes for an argument: str(None) is "None".
StrDe(x) == IF x.def THEN x.val ELSE <<"None">>

\* A calendar date; a 'YYYY-MM-DD' string is the sequence <<year, month, day>>.
Fecha(a, m, d) == [anio |-> a, mes |-> m, dia |-> d]

\* datetime.strftime('%Y-%m-%d')
Strftime(f) == <<f.anio, f.mes, f.dia>>

\* A value interpolated with a format specification, e.g. {x:,.0f} or {x:.4f}:
\* the rational num/den written under format fmt.
Fmt(fmt, num, den) == [fmt |-> fmt, num |-> num, den |-> den]

RECURSIVE SumaCampo(_, _)
\* pandas Series.sum() of column c over the rows of a DataFrame
SumaCampo(filas, c) ==
    IF filas = <<>> THEN 0 ELSE Head(filas)[c] + SumaCampo(Tail(filas), c)

\* DataFrame.head(n)
HeadN(filas, n) == SubSeq(filas, 1, IF Len(filas) < n THEN Len(filas) ELSE n)

-----------------------------------------------------------------------------
(* The database boundary.  A response is what one query meets:             *)
(*   "engine": get_db_engine raises (outside ejecutar_query's try),        *)
(*   "error" : connecting or reading raises inside ejecutar_query's try,   *)
(*   "filas" : the query answers a DataFrame with these rows.              *)

ErrEngine(e) == [tipo |-> "engine", texto |-> e, filas |-> <<>>]

ErrQuery(e) == [tipo |-> "error", texto |-> e, filas |-> <<>>]

Filas(f) == [tipo |-> "filas", texto |-> <<>>, filas |-> f]

\* Outcome of a call: a returned value or a raised exception with its str().
Ok(v) == [raised |-> FALSE, val |-> v, exc |-> <<>>]

Raise(e) == [raised |-> TRUE, val |-> <<>>, exc |-> e]

\* tools.py ejecutar_query: the DataFrame, or the exception re-raised with
\* the connection prefix; an exception of get_db_engine passes unwrapped.
ejecutar_query(resp) ==
    CASE resp.tipo = "engine" -> Raise(resp.texto)
      [] resp.tipo = "error" ->
            Raise(<<"Error al conectarse a la base de datos: ">> \o resp.texto)
      [] OTHER -> Ok(resp.filas)

-----------------------------------------------------------------------------
(* tools.py: the four operations *)

RECURSIVE DetalleServicios(_)
DetalleServicios(filas) ==
    IF filas = <<>> THEN <<>>
    ELSE LET row == Head(filas) IN
         << "Servicio: ", row.name, "\n",
            "   InstanceID: ", row.Instanceid, "\n",
            "   ID Servicio: ", row.IddServicio, "\n",
            "   SLA: ", row.sla, "%\n",
            "   Servicio Especial: ",
            IF row.is_spacial_service THEN "Si" ELSE "No", "\n",
            "   Canal Clave: ", IF row.is_key_channel THEN "Si" ELSE "No", "\n",
            "\n" >> \o DetalleServicios(Tail(filas))

consultar_servicios(servicio, resp) ==
    LET q == ejecutar_query(resp) IN
    IF q.raised THEN <<"Error al consultar servicios: ">> \o q.exc
    ELSE IF q.val = <<>>
    THEN <<"No se encontraron servicios">>
         \o (IF Truthy(servicio)
             THEN <<" con nombre similar a: ">> \o servicio.val ELSE <<>>)
         \o <<".">>
    ELSE <<"Se encontraron ", Len(q.val), " servicio(s):\n\n">>
         \o DetalleServicios(q.val)

\* The effective range of a date-ranged operation (tools.py 143-146, 203-206,
\* 270-273): both bounds are replaced when the start is falsy.  The default
\* reads the clock twice: reloj[1] is what datetime.now() answers for the
\* start bound and reloj[2] what it answers, later, for the end bound.
RangoEfectivo(ini, fin, reloj) ==
    IF ~Truthy(ini)
    THEN [ini |-> Algo(Strftime(Fecha(reloj[1].anio, 1, 1))),
          fin |-> Algo(Strftime(reloj[2]))]
    ELSE [ini |-> ini, fin |-> fin]

RECURSIVE DetallePromesas(_, _)
DetallePromesas(filas, idx) ==
    IF filas = <<>> THEN <<>>
    ELSE LET row == Head(filas) IN
         << idx + 1, ". Fecha: ", row.fecha, "\n",
            "   Dia: ", row.dia, "\n",
            "   Festivo: ", IF row.es_festivo THEN "Si" ELSE "No", "\n",
            "   Minutos: ", Fmt(",.0f", row.minutos_promesa, 1), "\n\n" >>
         \o DetallePromesas(Tail(filas), idx + 1)

consultar_promesa_servicio(servicio, fechaINI, fechaFIN, reloj, resp) ==
    LET r == RangoEfectivo(fechaINI, fechaFIN, reloj)
        q == ejecutar_query(resp)
    IN
    IF q.raised THEN <<"Error al consultar promesa de servicio: ">> \o q.exc
    ELSE IF q.val = <<>>
    THEN <<"No se encontro promesa de servicio para '">> \o servicio.val
         \o <<"' entre ">> \o StrDe(r.ini) \o <<" y ">> \o StrDe(r.fin) \o <<".">>
    ELSE LET total == SumaCampo(q.val, "minutos_promesa") IN
         <<"Promesa de servicio para '">> \o servicio.val \o <<"' (">>
         \o StrDe(r.ini) \o <<" a ">> \o StrDe(r.fin) \o <<"):\n\n">>
         \o << "Total de dias registrados: ", Len(q.val), "\n",
               "Total minutos prometidos: ", Fmt(",.0f", total, 1), "\n",
               "Promedio diario: ", Fmt(".0f", total, Len(q.val)), " minutos\n\n",
               "Ultimos registros:\n" >>
         \o DetallePromesas(HeadN(q.val, 5), 0)

RECURSIVE DetalleAfectaciones(_, _)
DetalleAfectaciones(filas, idx) ==
    IF filas = <<>> THEN <<>>
    ELSE LET row == Head(filas) IN
         << idx + 1, ". Inicio: ", row.fecha_hora_ini_afectacion, "\n",
            "   Fin: ", row.fecha_hora_fin_afectacion, "\n",
            "   Minutos: ", Fmt(",.0f", row.minutos, 1), "\n" >>
         \o (IF row.motivo.def THEN <<"   Motivo: ">> \o row.motivo.val \o <<"\n">>
             ELSE <<>>)
         \o <<"\n">>
         \o DetalleAfectaciones(Tail(filas), idx + 1)

consultar_afectaciones(servicio, fecha_inicio, fecha_fin, reloj, resp) ==
    LET r == RangoEfectivo(fecha_inicio, fecha_fin, reloj)
        q == ejecutar_query(resp)
    IN
    IF q.raised THEN <<"Error al consultar afectaciones: ">> \o q.exc
    ELSE IF q.val = <<>>
    THEN <<"No se encontraron afectaciones para '">> \o servicio.val
         \o <<"' entre ">> \o StrDe(r.ini) \o <<" y ">> \o StrDe(r.fin) \o <<".">>
    ELSE LET total == SumaCampo(q.val, "minutos") IN
         <<"Afectaciones para '">> \o servicio.val \o <<"' (">>
         \o StrDe(r.ini) \o <<" a ">> \o StrDe(r.fin) \o <<"):\n\n">>
         \o << "Total de afectaciones: ", Len(q.val), "\n",
               "Total minutos afectados: ", Fmt(",.0f", total, 1), "\n",
               "Promedio por afectacion: ", Fmt(".1f", total, Len(q.val)),
               " minutos\n\n",
               "Ultimas afectaciones:\n" >>
         \o DetalleAfectaciones(HeadN(q.val, 10), 0)
         \o (IF Len(q.val) > 10
             THEN <<"... y ", Len(q.val) - 10, " afectaciones mas.\n">>
             ELSE <<>>)

\* Faulty variant of SinPromesa: a total of 0 is taken for a missing promise.
SinPromesaOCero(filas) ==
    \/ filas = <<>>
    \/ Head(filas).minutos_promesa.nulo
    \/ Head(filas).minutos_promesa.n = 0

\* pandas: promesa_df.empty or pd.isna(promesa_df.iloc[0]['minutos_promesa'])
SinPromesa(filas) == filas = <<>> \/ Head(filas).minutos_promesa.nulo

\* Faulty variant of Porcentaje: the percentage is clamped at 0.
PorcentajeAcotado(minutos_promesa, minutos_afectacion) ==
    IF minutos_promesa > 0 /\ minutos_afectacion <= minutos_promesa
    THEN [num |-> (minutos_promesa - minutos_afectacion) * 100,
          den |-> minutos_promesa]
    ELSE [num |-> 0, den |-> 1]

\* tools.py 315-318: the percentage as the rational num/den
Porcentaje(minutos_promesa, minutos_afectacion) ==
    IF minutos_promesa > 0
    THEN [num |-> (minutos_promesa - minutos_afectacion) * 100,
          den |-> minutos_promesa]
    ELSE [num |-> 0, den |-> 1]

\* Faulty variant of AlMenos: the thresholds are exclusive.
MasQue(p, decimas) == p.num * 10 > decimas * p.den

\* porcentaje >= umbral, the threshold given in tenths (999 is 99.9)
AlMenos(p, decimas) == p.num * 10 >= decimas * p.den

\* tools.py 334-345: the state line and its advice
Estado(p) ==
    IF AlMenos(p, 999)
    THEN <<"Estado: EXCELENTE - Cumple SLA\n",
           "El servicio esta operando dentro de los parametros optimos.">>
    ELSE IF AlMenos(p, 990)
    THEN <<"Estado: BUENO - Dentro de limites aceptables\n",
           "El servicio cumple con los estandares minimos.">>
    ELSE IF AlMenos(p, 950)
    THEN <<"Estado: REGULAR - Requiere atencion\n",
           "Se recomienda revisar las causas de las afectaciones.">>
    ELSE <<"Estado: CRITICO - SLA comprometido\n",
           "Se requiere accion inmediata para mejorar la disponibilidad.">>

\* tools.py 312: the outage total, 0 when the outage query answers no row
MinutosAfectacion(filas) ==
    IF filas # <<>> THEN Head(filas).total_afectacion ELSE 0

\* tools.py 320-347: the report built from the two totals
Informe(servicio, r, minutos_promesa, minutos_afectacion) ==
    LET minutos_disponibles == minutos_promesa - minutos_afectacion
        porcentaje == Porcentaje(minutos_promesa, minutos_afectacion)
    IN
    <<"Analisis de Disponibilidad para '">> \o servicio.val \o <<"'\n">>
    \o <<"Periodo: ">> \o StrDe(r.ini) \o <<" a ">> \o StrDe(r.fin) \o <<"\n">>
    \o << "====\n\n",
          "Minutos prometidos: ", Fmt(",.0f", minutos_promesa, 1),
          " (", Fmt(".1f", minutos_promesa, 1440), " dias)\n",
          "Minutos afectados: ", Fmt(",.0f", minutos_afectacion, 1),
          " (", Fmt(".1f", minutos_afectacion, 60), " horas)\n",
          "Minutos disponibles: ", Fmt(",.0f", minutos_disponibles, 1), "\n\n",
          "DISPONIBILIDAD: ", Fmt(".4f", porcentaje.num, porcentaje.den), "%\n\n" >>
    \o Estado(porcentaje)

\* Faulty variant of calcular_disponibilidad: the failure of the second query
\* is returned without the operation's prefix.
calcular_disponibilidad_SinPrefijo(servicio, fechaINI, fechaFIN, reloj, resp_promesa, resp_afect) ==
    LET r == RangoEfectivo(fechaINI, fechaFIN, reloj)
        promesa_df == ejecutar_query(resp_promesa)
        afectacion_df == ejecutar_query(resp_afect)
    IN
    IF promesa_df.raised
    THEN <<"Error al calcular disponibilidad: ">> \o promesa_df.exc
    ELSE IF SinPromesa(promesa_df.val)
    THEN <<"No hay promesa de servicio registrada para '">> \o servicio.val
         \o <<"' en el periodo ">> \o StrDe(r.ini) \o <<" a ">> \o StrDe(r.fin)
         \o <<".">>
    ELSE IF afectacion_df.raised
    THEN afectacion_df.exc
    ELSE Informe(servicio, r, Head(promesa_df.val).minutos_promesa.n,
                 MinutosAfectacion(afectacion_df.val))

calcular_disponibilidad(servicio, fechaINI, fechaFIN, reloj, resp_promesa, resp_afect) ==
    LET r == RangoEfectivo(fechaINI, fechaFIN, reloj)
        promesa_df == ejecutar_query(resp_promesa)
        afectacion_df == ejecutar_query(resp_afect)
    IN
    IF promesa_df.raised
    THEN <<"Error al calcular disponibilidad: ">> \o promesa_df.exc
    ELSE IF SinPromesa(promesa_df.val)
    THEN <<"No hay promesa de servicio registrada para '">> \o servicio.val
         \o <<"' en el periodo ">> \o StrDe(r.ini) \o <<" a ">> \o StrDe(r.fin)
         \o <<".">>
    ELSE IF afectacion_df.raised
    THEN <<"Error al calcular disponibilidad: ">> \o afectacion_df.exc
    ELSE Informe(servicio, r, Head(promesa_df.val).minutos_promesa.n,
                 MinutosAfectacion(afectacion_df.val))

-----------------------------------------------------------------------------
(* tools.py: the parameters each operation passes to ejecutar_query, in the   *)
(* order of its queries.  A parameter the query does not take is Nada.        *)

\* f'%{servicio}%'
Comodin(servicio) == Algo(<<"%">> \o StrDe(servicio) \o <<"%">>)

\* tools.py 156-160, 216-220, 283-287, 304-308
ParametrosRango(servicio, r) ==
    [servicio |-> Comodin(servicio), fechaINI |-> r.ini, fechaFIN |-> r.fin]

\* tools.py 82-107: the name filter is passed only when servicio is truthy
Consultas_consultar_servicios(servicio) ==
    << [servicio |-> IF Truthy(servicio) THEN Comodin(servicio) ELSE Nada,
        fechaINI |-> Nada, fechaFIN |-> Nada] >>

Consultas_consultar_promesa_servicio(servicio, fechaINI, fechaFIN, reloj) ==
    << ParametrosRango(servicio, RangoEfectivo(fechaINI, fechaFIN, reloj)) >>

Consultas_consultar_afectaciones(servicio, fecha_inicio, fecha_fin, reloj) ==
    << ParametrosRango(servicio, RangoEfectivo(fecha_inicio, fecha_fin, reloj)) >>

\* The outage query is reached only when the promise query answered a total.
Consultas_calcular_disponibilidad(servicio, fechaINI, fechaFIN, reloj, resp_promesa) ==
    LET par == ParametrosRango(servicio, RangoEfectivo(fechaINI, fechaFIN, reloj))
        promesa_df == ejecutar_query(resp_promesa)
    IN IF promesa_df.raised \/ SinPromesa(promesa_df.val)
       THEN <<par>> ELSE <<par, par>>

-----------------------------------------------------------------------------
(* Exception texts: sequences of characters *)

Mayusculas ==
    <<"A","B","C","D","E","F","G","H","I","J","K","L","M","N","O","P","Q",
      "R","S","T","U","V","W","X","Y","Z">>

Minusculas ==
    <<"a","b","c","d","e","f","g","h","i","j","k","l","m","n","o","p","q",
      "r","s","t","u","v","w","x","y","z">>

LowerChar(c) ==
    LET donde == {i \in 1..Len(Mayusculas) : Mayusculas[i] = c} IN
    IF donde = {} THEN c ELSE Minusculas[CHOOSE i \in donde : TRUE]

\* str.lower()
Lower(s) == [i \in 1..Len(s) |-> LowerChar(s[i])]

\* `sub in s` for strings
Contiene(s, sub) ==
    \E i \in 1..(Len(s) - Len(sub) + 1) : SubSeq(s, i, i + Len(sub) - 1) = sub

ErrConexion ==
    <<"C","o","n","n","e","c","t","i","o","n"," ","e","r","r","o","r",".">>

ErrProtocolo ==
    <<"m","e","s","s","a","g","e","s"," ","w","i","t","h"," ","r","o","l",
      "e"," ","'","t","o","o","l","'"," ","m","u","s","t"," ","r","e","s",
      "p","o","n","d"," ","t","o"," ","'","t","o","o","l","_","c","a","l",
      "l","s","'">>

ErrSoloTool ==
    <<"U","n","k","n","o","w","n"," ","T","o","o","l">>

ErrSoloRole ==
    <<"R","O","L","E"," ","m","i","s","s","i","n","g">>

ErrMayusculas ==
    <<"T","O","O","L","/","R","O","L","E"," ","m","i","s","m","a","t","c",
      "h">>

\* The texts a failing llm_with_tools.invoke may carry (str(e)), the empty
\* text included.
ErroresLLM ==
    {<<>>, ErrConexion, ErrProtocolo, ErrSoloTool, ErrSoloRole, ErrMayusculas}

\* LangGraph's GraphRecursionError text.  The two backquotes around
\* recursion_limit are written as apostrophes: a TLA+ string cannot hold a
\* backquote.
RecursionText ==
    <<"R","e","c","u","r","s","i","o","n"," ","l","i","m","i","t"," ","o",
      "f"," ","2","5"," ","r","e","a","c","h","e","d"," ","w","i","t","h",
      "o","u","t"," ","h","i","t","t","i","n","g"," ","a"," ","s","t","o",
      "p"," ","c","o","n","d","i","t","i","o","n","."," ","Y","o","u"," ",
      "c","a","n"," ","i","n","c","r","e","a","s","e"," ","t","h","e"," ",
      "l","i","m","i","t"," ","b","y"," ","s","e","t","t","i","n","g"," ",
      "t","h","e"," ","'","r","e","c","u","r","s","i","o","n","_","l","i",
      "m","i","t","'"," ","c","o","n","f","i","g"," ","k","e","y",".">>

-----------------------------------------------------------------------------
(* agente.py: messages and the inputs of one conversation *)

\* The four declared operations (agente.py 35-40).
tools ==
    {"consultar_servicios", "consultar_promesa_servicio",
     "consultar_afectaciones", "calcular_disponibilidad"}

\* A message content: a string (isStr) or a list of content blocks.
Str(t) == [isStr |-> TRUE, val |-> t]

Lista(b) == [isStr |-> FALSE, val |-> b]

HumanMessage(c) ==
    [role |-> "user", content |-> Str(c), tool_calls |-> <<>>,
     tool_call_id |-> 0, name |-> ""]

AIMessage(c, calls) ==
    [role |-> "assistant", content |-> c, tool_calls |-> calls,
     tool_call_id |-> 0, name |-> ""]

ToolMessage(c, id, n) ==
    [role |-> "tool", content |-> Str(c), tool_calls |-> <<>>,
     tool_call_id |-> id, name |-> n]

Preguntas == {<<>>, <<"Que servicios tenemos disponibles?">>}

Texto1 == <<"Voy a consultar la base de datos.">>

Texto2 == <<"La disponibilidad es 99.9%.">>

\* What a reply of the model may carry as content.
Contenidos == {Str(<<>>), Str(Texto1), Str(Texto2), Lista(<<Texto1>>)}

\* What a reply that requests operations carries as content in the
\* conversations explored.
ContenidosConTools == {Str(<<>>), Str(Texto1)}

\* The operation names a reply may request: one request, or two in parallel.
Peticiones == {<<a>> : a \in tools} \cup {<<a, b>> : a, b \in tools}

\* The date of the run and the arguments the model supplies in a conversation.
HoyAgente == Fecha(2026, 10, 30)

\* The clock during a conversation: both reads of a default fall on that day.
RelojAgente == <<HoyAgente, HoyAgente>>

ArgsAgente == [servicio |-> Algo(<<"ASP">>), fechaINI |-> Nada, fechaFIN |-> Nada]

TextoErrorDb == <<"Login timeout expired">>

FilaServicio ==
    [name |-> "ASP", Instanceid |-> "I1", IddServicio |-> 1, sla |-> 99,
     is_spacial_service |-> FALSE, is_key_channel |-> TRUE]

FilaPromesa ==
    [fecha |-> <<2026, 10, 29>>, dia |-> "jueves", es_festivo |-> FALSE,
     minutos_promesa |-> 4]

FilaAfectacion ==
    [fecha_hora_ini_afectacion |-> <<2026, 10, 29>>,
     fecha_hora_fin_afectacion |-> <<2026, 10, 29>>, minutos |-> 1,
     motivo |-> Nada]

Numero(n) == [nulo |-> FALSE, n |-> n]

Nulo == [nulo |-> TRUE, n |-> 0]

\* What the database answers to an operation of a conversation: every query
\* fails ("down"), the first query answers and the database is lost before
\* the second ("cae"), or every query answers the rows above ("up").
Bases == {"down", "cae", "up"}

RespuestaDb(nombre, db, consulta) ==
    IF db = "down" \/ (db = "cae" /\ consulta = 2) THEN ErrQuery(TextoErrorDb)
    ELSE CASE nombre = "consultar_servicios" -> Filas(<<FilaServicio>>)
           [] nombre = "consultar_promesa_servicio" -> Filas(<<FilaPromesa>>)
           [] nombre = "consultar_afectaciones" -> Filas(<<FilaAfectacion>>)
           [] OTHER ->
                IF consulta = 1 THEN Filas(<<[minutos_promesa |-> Numero(4)]>>)
                ELSE Filas(<<[total_afectacion |-> 1]>>)

\* ToolNode's dispatch by name: the text the named operation returns.
InvocarTool(call, db) ==
    LET a == call.args IN
    CASE call.name = "consultar_servicios" ->
            consultar_servicios(a.servicio, RespuestaDb(call.name, db, 1))
      [] call.name = "consultar_promesa_servicio" ->
            consultar_promesa_servicio(a.servicio, a.fechaINI, a.fechaFIN,
                RelojAgente, RespuestaDb(call.name, db, 1))
      [] call.name = "consultar_afectaciones" ->
            consultar_afectaciones(a.servicio, a.fechaINI, a.fechaFIN,
                RelojAgente, RespuestaDb(call.name, db, 1))
      [] OTHER ->
            calcular_disponibilidad(a.servicio, a.fechaINI, a.fechaFIN,
                RelojAgente, RespuestaDb(call.name, db, 1),
                RespuestaDb(call.name, db, 2))

-----------------------------------------------------------------------------
(* agente.py: the compiled graph and consultar_agente *)

\* LangGraph's default recursion_limit, in force because app.stream(inputs)
\* passes no config: the run is aborted with GraphRecursionError once this
\* many supersteps have been executed without the graph having ended.
RecursionLimit == 25

Fallback == <<"No pude procesar tu consulta. Por favor, intenta reformularla.">>

RECURSIVE TotalCalls(_)
\* Operation requests issued so far in a conversation
TotalCalls(msgs) ==
    IF msgs = <<>> THEN 0
    ELSE Len(Head(msgs).tool_calls) + TotalCalls(Tail(msgs))

\* The tool calls of a reply: the model gateway gives each a fresh identifier.
ToolCalls(nombres, usados) ==
    [i \in 1..Len(nombres) |->
        [id |-> usados + i, name |-> nombres[i], args |-> ArgsAgente]]

\* Faulty variant of decidir_continuar: routes on the reply's content instead
\* of its tool calls.
decidir_continuar_PorContenido(msgs) ==
    LET last_message == msgs[Len(msgs)] IN
    IF last_message.content.val = <<>> THEN "tools" ELSE "end"

\* agente.py 54-63
decidir_continuar(msgs) ==
    LET last_message == msgs[Len(msgs)] IN
    IF last_message.tool_calls # <<>> THEN "tools" ELSE "end"

\* Faulty variant of Capturar: the first text captured is kept.
CapturarPrimero(res, last_msg) ==
    IF res.val = <<>> /\ last_msg.content.val # <<>> /\ last_msg.content.isStr
    THEN last_msg.content
    ELSE res

\* agente.py 129-131: the content captured from an "agent" update
Capturar(res, last_msg) ==
    IF last_msg.content.val # <<>> /\ last_msg.content.isStr
    THEN last_msg.content
    ELSE res

\* Faulty variant of EjecutarTools: the results are appended in reverse order.
EjecutarToolsInvertido(calls, dbs) ==
    [i \in 1..Len(calls) |->
        LET k == Len(calls) + 1 - i IN
        ToolMessage(InvocarTool(calls[k], dbs[k]), calls[k].id, calls[k].name)]

\* ToolNode: one ToolMessage per tool call of the last message, in call order
EjecutarTools(calls, dbs) ==
    [i \in 1..Len(calls) |->
        ToolMessage(InvocarTool(calls[i], dbs[i]), calls[i].id, calls[i].name)]

\* The conversations explored: those with at most MaxCalls operation requests
\* and the routine ones, in which every reply requests one
\* consultar_servicios with empty content and the database answers.
RespuestaRutinaria(c, nombres) ==
    c = Str(<<>>) /\ nombres = <<"consultar_servicios">>

Rutinaria(msgs) ==
    \A i \in 1..Len(msgs) :
        /\ msgs[i].role = "assistant" =>
              /\ msgs[i].content = Str(<<>>)
              /\ Len(msgs[i].tool_calls) = 1
              /\ msgs[i].tool_calls[1].name = "consultar_servicios"
        /\ msgs[i].role = "tool" =>
              /\ msgs[i].name = "consultar_servicios"
              /\ msgs[i].content =
                    Str(consultar_servicios(ArgsAgente.servicio,
                            RespuestaDb("consultar_servicios", "up", 1)))

RespuestaAdmitida(msgs, c, nombres) ==
    \/ nombres = <<>>
    \/ c \in ContenidosConTools /\ TotalCalls(msgs) + Len(nombres) <= MaxCalls
    \/ RespuestaRutinaria(c, nombres) /\ Rutinaria(msgs)

BasesAdmitidas(msgs, calls, dbs) ==
    /\ \A i \in DOMAIN dbs :
          dbs[i] = "cae" => calls[i].name = "calcular_disponibilidad"
    /\ \/ TotalCalls(msgs) <= MaxCalls
       \/ \A i \in DOMAIN dbs : dbs[i] = "up"

\* Faulty variant of TrasPaso: the graph has no recursion limit.
TrasPasoSinLimite(n, destino) == {destino}

\* The positions possible after superstep n, when the graph's edges lead to
\* `destino`.  app.stream(inputs) is given no config, so LangGraph's default
\* recursion_limit applies.  Within the limit the graph goes on to `destino`.
\* Once RecursionLimit supersteps have run, a graph with a further superstep
\* pending is aborted with GraphRecursionError.  A graph whose
\* RecursionLimit-th superstep leads to END is aborted too by an engine that
\* tests the limit as soon as the supersteps have run, and ends normally under
\* one that tests it only when another superstep is pending.  The repository
\* neither pins a LangGraph release nor contains the engine, so which of the
\* two a build does is not fixed by the source and both are possible.
TrasPaso(n, destino) ==
    IF n < RecursionLimit THEN {destino}
    ELSE IF destino = "end" THEN {"end", "except"}
    ELSE {"except"}

\* Faulty variant of MensajeError: one of the two words is enough.
MensajeErrorUnaPalabra(msg) ==
    IF Contiene(Lower(msg), <<"t","o","o","l">>)
       \/ Contiene(Lower(msg), <<"r","o","l","e">>)
    THEN <<"Error: Problema con el manejo de herramientas. ",
           "Detalles tecnicos: ">> \o msg
    ELSE <<"Error al procesar la consulta: ">> \o msg

\* agente.py 151-156: the text returned for a caught exception
MensajeError(msg) ==
    IF Contiene(Lower(msg), <<"t","o","o","l">>)
       /\ Contiene(Lower(msg), <<"r","o","l","e">>)
    THEN <<"Error: Problema con el manejo de herramientas. ",
           "Detalles tecnicos: ">> \o msg
    ELSE <<"Error al procesar la consulta: ">> \o msg

\* What a call of consultar_agente ends with: a returned value or an
\* exception that leaves the function.
Retorna(v) == [raised |-> FALSE, val |-> v, exc |-> <<>>]

Propaga(e) == [raised |-> TRUE, val |-> Str(<<>>), exc |-> e]

\* Faulty variant of ResultadoFinal: no fallback sentence.
ResultadoFinalSinFallback(res) == Retorna(res)

\* agente.py 142-145: the return after the stream is exhausted
ResultadoFinal(res) == Retorna(IF res.val = <<>> THEN Str(Fallback) ELSE res)

\* Faulty variant of ManejarExcepcion: only the tool-protocol failure is
\* turned into text, any other exception leaves the function.
ManejarExcepcionSoloProtocolo(msg) ==
    IF Contiene(Lower(msg), <<"t","o","o","l">>)
       /\ Contiene(Lower(msg), <<"r","o","l","e">>)
    THEN Retorna(Str(MensajeError(msg)))
    ELSE Propaga(msg)

\* agente.py 147-156: the except clause
ManejarExcepcion(msg) == Retorna(Str(MensajeError(msg)))

SinRespuesta == [tipo |-> "ninguna", texto |-> <<>>, filas |-> <<>>]

SinLlamada ==
    [op |-> "ninguna", servicio |-> Nada, ini |-> Nada, fin |-> Nada,
     reloj |-> RelojAgente, resp1 |-> SinRespuesta, resp2 |-> SinRespuesta]

Init ==
    /\ pc = "agent"
    /\ \E pregunta \in Preguntas : messages = <<HumanMessage(pregunta)>>
    /\ step = 0
    /\ resultado = Str(<<>>)
    /\ error_msg = <<>>
    /\ retorno = Retorna(Str(<<>>))
    /\ llm_calls = 0
    /\ db_log = <<>>
    /\ tool_in = SinLlamada
    /\ tool_out = <<>>
    /\ tool_params = <<>>

\* What consultar_agente does once the graph has taken superstep n and would
\* go on to `destino`: it keeps iterating, returns after the stream is
\* exhausted (agente.py 142-145), or returns from the except clause when the
\* recursion limit aborts the stream (agente.py 147-156).
Continuar(n, destino, res) ==
    \E sigue \in TrasPaso(n, destino) :
       /\ pc' = CASE sigue = "end" -> "returned"
                  [] sigue = "except" -> "except_returned"
                  [] OTHER -> sigue
       /\ error_msg' = IF sigue = "except" THEN RecursionText ELSE error_msg
       /\ retorno' = CASE sigue = "end" -> ResultadoFinal(res)
                       [] sigue = "except" -> ManejarExcepcion(RecursionText)
                       [] OTHER -> retorno

\* The "agent" node (llamar_modelo), the routing after it (decidir_continuar)
\* and the body of consultar_agente's loop for the update it streams; an
\* exception of the model call reaches the except clause.
NodoAgent ==
    /\ pc = "agent"
    /\ llm_calls' = llm_calls + 1
    /\ \/ \E e \in ErroresLLM :
             /\ pc' = "except_returned"
             /\ error_msg' = e
             /\ retorno' = ManejarExcepcion(e)
             /\ UNCHANGED <<messages, step, resultado>>
       \/ \E c \in Contenidos, nombres \in {<<>>} \cup Peticiones :
             /\ RespuestaAdmitida(messages, c, nombres)
             /\ LET response == AIMessage(c, ToolCalls(nombres, TotalCalls(messages)))
                IN /\ messages' = messages \o <<response>>
                   /\ resultado' = Capturar(resultado, response)
             /\ step' = step + 1
             /\ Continuar(step', decidir_continuar(messages'), resultado')
    /\ UNCHANGED <<db_log, tool_in, tool_out, tool_params>>

\* The "tools" node (ToolNode) and the loop body for the update it streams.
NodoTools ==
    /\ pc = "tools"
    /\ LET calls == messages[Len(messages)].tool_calls IN
       \E dbs \in [1..Len(calls) -> Bases] :
          /\ BasesAdmitidas(messages, calls, dbs)
          /\ messages' = messages \o EjecutarTools(calls, dbs)
          /\ db_log' = db_log \o dbs
    /\ step' = step + 1
    /\ Continuar(step', "agent", resultado)
    /\ UNCHANGED <<resultado, llm_calls, tool_in, tool_out, tool_params>>

Next == NodoAgent \/ NodoTools

Spec == Init /\ [][Next]_vars

-----------------------------------------------------------------------------
(* tools.py called directly: one action per operation, its arguments and    *)
(* the database's responses drawn from the sets below.  The operations      *)
(* keep no state between calls, so a behaviour makes one call.              *)

ServiciosOpcionales == {Nada, Algo(<<>>), Algo(<<"ASP">>)}

Servicios == {Algo(<<"ASP">>)}

FechasINI == {Nada, Algo(<<>>), Algo(<<2026, 3, 1>>)}

FechasFIN == {Nada, Algo(<<2026, 6, 30>>)}

\* datetime.now() at the call
Dias == {Fecha(2026, 10, 30), Fecha(2027, 1, 1)}

\* The two answers of datetime.now() during a call: the same day, or the last
\* day of a year and the first of the next when midnight falls between them.
Relojes ==
    {<<d, d>> : d \in Dias} \cup {<<Fecha(2026, 12, 31), Fecha(2027, 1, 1)>>}

ErroresDb ==
    {ErrEngine(<<"No module named 'pyodbc'">>), ErrQuery(TextoErrorDb)}

\* Sequences of length 0..n over the set s
RECURSIVE Hasta(_, _)
Hasta(s, n) == IF n <= 0 THEN {<<>>} ELSE Hasta(s, n - 1) \cup [1..n -> s]

RespuestasServicios == ErroresDb \cup {Filas(f) : f \in Hasta({FilaServicio}, MaxFilas)}

RespuestasPromesas == ErroresDb \cup {Filas(f) : f \in Hasta({FilaPromesa}, MaxFilas)}

RespuestasAfectaciones ==
    ErroresDb \cup
    {Filas(f) : f \in Hasta({FilaAfectacion,
                             [FilaAfectacion EXCEPT !.motivo = Algo(<<"Mantenimiento">>)]},
                            MaxFilas)}

\* Promised totals of 20, 100 and 1000 minutes, of which a whole number of
\* outage minutes leaves exactly 95, 99 and 99.9 per cent.
Escalas == {20, 100, 1000}

\* SELECT SUM([minutos_promesa]): no row, a NULL sum or a total
RespuestasSumaPromesa ==
    ErroresDb \cup {Filas(<<>>), Filas(<<[minutos_promesa |-> Nulo]>>)}
    \cup {Filas(<<[minutos_promesa |-> Numero(p)]>>) :
             p \in (0..MaxPromesa) \cup Escalas}

\* SELECT ISNULL(SUM([minutos]), 0): no row or a total
RespuestasSumaAfectacion ==
    ErroresDb \cup {Filas(<<>>)}
    \cup {Filas(<<[total_afectacion |-> o]>>) : o \in 0..MaxAfectacion}

Llamada(op, servicio, ini, fin, reloj, resp1, resp2) ==
    [op |-> op, servicio |-> servicio, ini |-> ini, fin |-> fin, reloj |-> reloj,
     resp1 |-> resp1, resp2 |-> resp2]

Llamar_consultar_servicios ==
    /\ tool_in = SinLlamada
    /\ \E servicio \in ServiciosOpcionales, resp \in RespuestasServicios :
          /\ tool_in' = Llamada("consultar_servicios", servicio, Nada, Nada,
                                RelojAgente, resp, SinRespuesta)
          /\ tool_out' = consultar_servicios(servicio, resp)
          /\ tool_params' = Consultas_consultar_servicios(servicio)
          /\ UNCHANGED agent_vars

Llamar_consultar_promesa_servicio ==
    /\ tool_in = SinLlamada
    /\ \E servicio \in Servicios, ini \in FechasINI, fin \in FechasFIN,
          reloj \in Relojes, resp \in RespuestasPromesas :
          /\ tool_in' = Llamada("consultar_promesa_servicio", servicio, ini, fin,
                                reloj, resp, SinRespuesta)
          /\ tool_out' = consultar_promesa_servicio(servicio, ini, fin, reloj, resp)
          /\ tool_params' = Consultas_consultar_promesa_servicio(servicio, ini, fin, reloj)
          /\ UNCHANGED agent_vars

Llamar_consultar_afectaciones ==
    /\ tool_in = SinLlamada
    /\ \E servicio \in Servicios, ini \in FechasINI, fin \in FechasFIN,
          reloj \in Relojes, resp \in RespuestasAfectaciones :
          /\ tool_in' = Llamada("consultar_afectaciones", servicio, ini, fin,
                                reloj, resp, SinRespuesta)
          /\ tool_out' = consultar_afectaciones(servicio, ini, fin, reloj, resp)
          /\ tool_params' = Consultas_consultar_afectaciones(servicio, ini, fin, reloj)
          /\ UNCHANGED agent_vars

Llamar_calcular_disponibilidad ==
    /\ tool_in = SinLlamada
    /\ \E servicio \in Servicios, ini \in FechasINI, fin \in FechasFIN,
          reloj \in Relojes, resp1 \in RespuestasSumaPromesa,
          resp2 \in RespuestasSumaAfectacion :
          /\ tool_in' = Llamada("calcular_disponibilidad", servicio, ini, fin,
                                reloj, resp1, resp2)
          /\ tool_out' = calcular_disponibilidad(servicio, ini, fin, reloj, resp1, resp2)
          /\ tool_params' = Consultas_calcular_disponibilidad(servicio, ini, fin, reloj, resp1)
          /\ UNCHANGED agent_vars

NextTools ==
    \/ Llamar_consultar_servicios
    \/ Llamar_consultar_promesa_servicio
    \/ Llamar_consultar_afectaciones
    \/ Llamar_calcular_disponibilidad

SpecTools == Init /\ [][NextTools]_vars

-----------------------------------------------------------------------------
(* Properties *)

Terminal == pc \in {"returned", "except_returned"}

UltimoMensaje == messages[Len(messages)]

Asistentes == {i \in 1..Len(messages) : messages[i].role = "assistant"}

Resultados == {i \in 1..Len(messages) : messages[i].role = "tool"}

\* A model call raised: it was made and left no reply in the conversation.
FalloLLM == llm_calls > Cardinality(Asistentes)

\* A non-empty string
EsTextoNoVacio(c) == c.isStr /\ c.val # <<>>

\* The conversation ends with a reply of the model that requests nothing.
RespuestaSinPeticiones ==
    UltimoMensaje.role = "assistant" /\ UltimoMensaje.tool_calls = <<>>

GenericoDe(msg) == Retorna(Str(<<"Error al procesar la consulta: ">> \o msg))

EspecialDe(msg) ==
    Retorna(Str(<<"Error: Problema con el manejo de herramientas. ",
                  "Detalles tecnicos: ">> \o msg))

\* C1: whatever the question, the replies and the outcomes of the operations,
\* and at whichever round the model call or the graph raises, a call of
\* consultar_agente ends by returning a string: no exception leaves it.
C1_SiempreDevuelveTexto ==
    /\ Terminal => ~retorno.raised /\ retorno.val.isStr
    /\ FalloLLM => Terminal /\ ~retorno.raised

\* C1 witness: the model call raised at a later round, after operations ran.
C1_Testigo ==
    /\ pc = "except_returned"
    /\ FalloLLM
    /\ Resultados # {}
    /\ ~retorno.raised

\* C2: when the stream ends normally and no non-empty text was captured, the
\* fixed fallback sentence is returned; the text returned on a normal end is
\* never empty.
C2_FallbackNuncaVacio ==
    pc = "returned" =>
        /\ EsTextoNoVacio(retorno.val)
        /\ (\A i \in Asistentes : ~EsTextoNoVacio(messages[i].content))
              => retorno = Retorna(Str(Fallback))

\* C2 witness: a conversation with operation rounds ends with no text captured.
C2_Testigo ==
    /\ pc = "returned"
    /\ Resultados # {}
    /\ \A i \in Asistentes : ~EsTextoNoVacio(messages[i].content)
    /\ retorno = Retorna(Str(Fallback))

RespuestaFinalConTexto ==
    RespuestaSinPeticiones /\ EsTextoNoVacio(UltimoMensaje.content)

C4_Original == Terminal => FalloLLM \/ RespuestaSinPeticiones

\* C4 amended: the loop ends on a reply with no operation request, on a failing
\* model call, or when RecursionLimit supersteps have been executed; when the
\* last of them is a reply that still carries a request the recursion error is
\* caught and the generic error text returned.  A conversation makes at most
\* (RecursionLimit + 1) / 2 model calls.
C4_LimiteDeRecursion ==
    /\ step <= RecursionLimit
    /\ llm_calls <= (RecursionLimit + 1) \div 2
    /\ Terminal <=> (FalloLLM \/ RespuestaSinPeticiones \/ step = RecursionLimit)
    /\ step = RecursionLimit /\ ~RespuestaSinPeticiones =>
          /\ pc = "except_returned"
          /\ error_msg = RecursionText
          /\ retorno = GenericoDe(RecursionText)

\* C4 witness: every reply carried a request and the limit ended the run.
C4_Testigo ==
    /\ step = RecursionLimit
    /\ pc = "except_returned"
    /\ \A i \in Asistentes : messages[i].tool_calls # <<>>
    /\ retorno = GenericoDe(RecursionText)

\* The requests of the conversation, as <<message index, position>> pairs
Peticion == {<<i, k>> \in (1..Len(messages)) \X {1, 2} :
                /\ messages[i].role = "assistant"
                /\ k <= Len(messages[i].tool_calls)}

\* The last assistant message before message j (0 if none)
AsistentePrevio(j) ==
    LET previos == {i \in 1..(j - 1) : messages[i].role = "assistant"} IN
    IF previos = {} THEN 0
    ELSE CHOOSE i \in previos : \A h \in previos : h <= i

\* C5: every operation-result message answers exactly one request that appears
\* earlier and was unanswered until then, no request is answered twice, the
\* results of one Acting phase follow the order of the requests they answer,
\* and once the loop is back in Thinking every request has been answered.
C5_Emparejamiento ==
    /\ \A p, q \in Peticion :
          messages[p[1]].tool_calls[p[2]].id = messages[q[1]].tool_calls[q[2]].id
             => p = q
    /\ \A j \in Resultados :
          LET i == AsistentePrevio(j) IN
          /\ i > 0
          /\ j - i <= Len(messages[i].tool_calls)
          /\ messages[j].tool_call_id = messages[i].tool_calls[j - i].id
          /\ messages[j].name = messages[i].tool_calls[j - i].name
    /\ \A j, h \in Resultados :
          messages[j].tool_call_id = messages[h].tool_call_id => j = h
    /\ pc = "agent" =>
          \A p \in Peticion : \E j \in Resultados :
             messages[j].tool_call_id = messages[p[1]].tool_calls[p[2]].id

\* C5 witness: one reply carried two requests and both have been answered.
C5_Testigo ==
    \E i \in Asistentes :
       /\ Len(messages[i].tool_calls) = 2
       /\ i + 2 <= Len(messages)
       /\ messages[i + 1].tool_call_id = messages[i].tool_calls[1].id
       /\ messages[i + 2].tool_call_id = messages[i].tool_calls[2].id

\* The messages a step appends to the conversation
Nuevos == SubSeq(messages', Len(messages) + 1, Len(messages'))

C6_Paso ==
    /\ pc \in {"agent", "tools"}
    /\ Len(messages') >= Len(messages)
    /\ SubSeq(messages', 1, Len(messages)) = messages
    /\ pc = "agent" =>
          /\ llm_calls' = llm_calls + 1
          /\ \A i \in DOMAIN Nuevos : i = 1 /\ Nuevos[i].role = "assistant"
    /\ pc = "tools" =>
          /\ pc' = "agent"
          /\ llm_calls' = llm_calls
          /\ Len(Nuevos) = Len(UltimoMensaje.tool_calls)
          /\ \A i \in DOMAIN Nuevos : Nuevos[i].role = "tool"
    /\ pc' = "tools" =>
          /\ pc = "agent"
          /\ Len(Nuevos) = 1
          /\ Nuevos[1].tool_calls # <<>>
    /\ pc' \in {"returned", "except_returned"} => pc = "agent"
    /\ pc' = "returned" =>
          /\ Len(Nuevos) = 1
          /\ Nuevos[1].tool_calls = <<>>

\* C6: the loop is strictly sequential.  It starts in Thinking with a single
\* user message; Acting is entered only right after an assistant reply that
\* carries at least one request; every Acting phase is followed by Thinking;
\* the loop ends only from Thinking, normally only on a reply with no request,
\* never directly from Acting.
C6_Secuencial ==
    /\ pc = "agent" /\ Len(messages) = 1 /\ messages[1].role = "user"
    /\ [][C6_Paso]_vars

\* C6 witness: a run went Thinking, Acting, Thinking and ended.
C6_Testigo ==
    /\ pc = "returned"
    /\ step >= 3
    /\ Resultados # {}
    /\ RespuestaSinPeticiones

PrefijoError(nombre) ==
    CASE nombre = "consultar_servicios" -> "Error al consultar servicios: "
      [] nombre = "consultar_promesa_servicio" ->
            "Error al consultar promesa de servicio: "
      [] nombre = "consultar_afectaciones" -> "Error al consultar afectaciones: "
      [] nombre = "calcular_disponibilidad" -> "Error al calcular disponibilidad: "

\* C7: a database failure during an operation, the second query of
\* calcular_disponibilidad included, does not leave the operation: its result
\* is a string that starts with the operation's error prefix, that string is
\* the operation-result message, and the loop goes on to Thinking (the model
\* is called again).
C7_ErrorDeBaseNoAborta ==
    /\ \A j \in Resultados :
          db_log[messages[j].tool_call_id] # "up" =>
             /\ messages[j].content.isStr
             /\ Head(messages[j].content.val) = PrefijoError(messages[j].name)
    /\ UltimoMensaje.role = "tool" => pc = "agent" \/ FalloLLM
    /\ Len(db_log) = Cardinality(Resultados)

\* C7 witness: the second query of calcular_disponibilidad failed, its error
\* string was appended and the model was asked again.
C7_Testigo ==
    \E j \in Resultados :
       /\ db_log[messages[j].tool_call_id] = "cae"
       /\ messages[j].name = "calcular_disponibilidad"
       /\ Head(messages[j].content.val) = "Error al calcular disponibilidad: "
       /\ \E i \in Asistentes : i > j

\* The text has the word at position i, in any letter case
PalabraEn(msg, i, minus, mayus) ==
    /\ i + Len(minus) - 1 <= Len(msg)
    /\ \A k \in 1..Len(minus) : msg[i + k - 1] \in {minus[k], mayus[k]}

Menciona(msg, minus, mayus) ==
    \E i \in 1..Len(msg) : PalabraEn(msg, i, minus, mayus)

MencionaToolYRole(msg) ==
    /\ Menciona(msg, <<"t","o","o","l">>, <<"T","O","O","L">>)
    /\ Menciona(msg, <<"r","o","l","e">>, <<"R","O","L","E">>)

\* C8: a failure of the model call or of the loop is caught once at the entry
\* point; the tool-handling message is returned if and only if the failure
\* text has both "tool" and "role" in any letter case, the generic message
\* wrapping the failure text otherwise; the model is not called again.
C8_ClasificacionDelError ==
    /\ pc = "except_returned" =>
          retorno = IF MencionaToolYRole(error_msg)
                    THEN EspecialDe(error_msg) ELSE GenericoDe(error_msg)
    /\ FalloLLM =>
          /\ pc = "except_returned"
          /\ llm_calls = Cardinality(Asistentes) + 1

\* C8 witness: a failure whose text has both words, in capitals, was caught
\* after operations had run.
C8_Testigo ==
    /\ pc = "except_returned"
    /\ error_msg = ErrMayusculas
    /\ Resultados # {}
    /\ retorno = EspecialDe(ErrMayusculas)

\* The direct call was calcular_disponibilidad and its promise query answered.
CalculoConPromesa ==
    tool_in.op = "calcular_disponibilidad" /\ tool_in.resp1.tipo = "filas"

PromesaAusente ==
    tool_in.resp1.filas = <<>> \/ Head(tool_in.resp1.filas).minutos_promesa.nulo

PromesaTotal == Head(tool_in.resp1.filas).minutos_promesa.n

AfectacionTotal ==
    IF tool_in.resp2.filas = <<>> THEN 0
    ELSE Head(tool_in.resp2.filas).total_afectacion

EsSinPromesa(texto) == Head(texto) = "No hay promesa de servicio registrada para '"

EsInforme(texto) == Head(texto) = "Analisis de Disponibilidad para '"

\* The value written after "DISPONIBILIDAD: " in a report
DisponibilidadDe(texto) == texto[Len(texto) - 3]

\* C9 as stated: when the promised total is 0, or the promise query answers no
\* row or a null sum, the "no promise registered" message is returned, never a
\* numeric report.
C9_Original ==
    CalculoConPromesa /\ (PromesaAusente \/ PromesaTotal = 0)
        => EsSinPromesa(tool_out)

\* C9 amended: the "no promise registered" message is returned exactly when the
\* promise query answers no row or a null sum.  A non-null total of 0 passes
\* the null check: the zero-denominator branch is taken and, the outage query
\* answering, a numeric report with availability 0 is returned.
C9_PromesaNulaOCero ==
    CalculoConPromesa =>
        /\ EsSinPromesa(tool_out) <=> PromesaAusente
        /\ ~PromesaAusente /\ PromesaTotal = 0 /\ tool_in.resp2.tipo = "filas" =>
              /\ EsInforme(tool_out)
              /\ tool_out[Len(tool_out) - 4] = "DISPONIBILIDAD: "
              /\ DisponibilidadDe(tool_out) = Fmt(".4f", 0, 1)

\* C9 witness: a promised total of 0 gave a numeric report.
C9_Testigo ==
    /\ CalculoConPromesa
    /\ ~PromesaAusente
    /\ PromesaTotal = 0
    /\ EsInforme(tool_out)
    /\ DisponibilidadDe(tool_out) = Fmt(".4f", 0, 1)

\* C10: for a promised total P > 0 and an outage total O >= 0 (0 when the
\* outage query answers no row) the availability reported is (P - O) / P * 100,
\* not clamped: negative when O > P, exactly 100 when O = 0.
C10_FormulaDisponibilidad ==
    /\ CalculoConPromesa
    /\ ~PromesaAusente
    /\ PromesaTotal > 0
    /\ tool_in.resp2.tipo = "filas"
    => LET d == DisponibilidadDe(tool_out) IN
       /\ EsInforme(tool_out)
       /\ tool_out[Len(tool_out) - 4] = "DISPONIBILIDAD: "
       /\ d.fmt = ".4f"
       /\ d.den > 0
       /\ d.num * PromesaTotal = (PromesaTotal - AfectacionTotal) * 100 * d.den
       /\ AfectacionTotal > PromesaTotal => d.num < 0
       /\ AfectacionTotal = 0 => d.num = 100 * d.den

\* C10 witness: the outages exceed the promise and the report is negative.
C10_Testigo ==
    /\ CalculoConPromesa
    /\ ~PromesaAusente
    /\ PromesaTotal > 0
    /\ tool_in.resp2.tipo = "filas"
    /\ AfectacionTotal > PromesaTotal
    /\ EsInforme(tool_out)
    /\ DisponibilidadDe(tool_out).num < 0

\* The state line of a report and the tier it names, 1 (critical) to 4
\* (excellent); 0 if the line is none of the four.
NivelDe(texto) ==
    LET linea == texto[Len(texto) - 1] IN
    CASE linea = "Estado: EXCELENTE - Cumple SLA\n" -> 4
      [] linea = "Estado: BUENO - Dentro de limites aceptables\n" -> 3
      [] linea = "Estado: REGULAR - Requiere atencion\n" -> 2
      [] linea = "Estado: CRITICO - SLA comprometido\n" -> 1
      [] OTHER -> 0

\* The tier of the percentage num/den (den > 0) by inclusive lower bounds
\* taken in descending order, in whole-number arithmetic.
NivelPorUmbrales(num, den) ==
    IF num * 10 >= 999 * den THEN 4
    ELSE IF num * 10 >= 990 * den THEN 3
    ELSE IF num * 10 >= 950 * den THEN 2
    ELSE 1

\* The report of a direct call of calcular_disponibilidad
HayInforme ==
    /\ CalculoConPromesa
    /\ ~PromesaAusente
    /\ tool_in.resp2.tipo = "filas"

\* The totals the two queries may answer in a call with a report
TotalesPromesa == (1..MaxPromesa) \cup Escalas

TotalesAfectacion == 0..MaxAfectacion

\* C11: the report names exactly one of four tiers, the one given by the
\* inclusive lower bounds 99.9, 99.0 and 95.0 taken in descending order on the
\* percentage it reports; the boundary values get the upper tier; and the
\* classification is monotonic: against the report of any other pair of totals,
\* the higher percentage never has the worse tier.
C11_NivelesDeEstado ==
    HayInforme =>
        LET d == DisponibilidadDe(tool_out) IN
        /\ EsInforme(tool_out)
        /\ d.den > 0
        /\ NivelDe(tool_out) \in 1..4
        /\ NivelDe(tool_out) = NivelPorUmbrales(d.num, d.den)
        /\ d.num * 10 = 999 * d.den => NivelDe(tool_out) = 4
        /\ d.num = 99 * d.den => NivelDe(tool_out) = 3
        /\ d.num = 95 * d.den => NivelDe(tool_out) = 2
        /\ \A p \in TotalesPromesa, o \in TotalesAfectacion :
              LET otro == calcular_disponibilidad(tool_in.servicio, tool_in.ini,
                              tool_in.fin, tool_in.reloj,
                              Filas(<<[minutos_promesa |-> Numero(p)]>>),
                              Filas(<<[total_afectacion |-> o]>>))
                  e == DisponibilidadDe(otro)
              IN d.num * e.den <= e.num * d.den
                    => NivelDe(tool_out) <= NivelDe(otro)

\* C11 witness: a report of exactly 99.9 per cent, classified excellent.
C11_Testigo ==
    /\ HayInforme
    /\ PromesaTotal > 0
    /\ AfectacionTotal > 0
    /\ DisponibilidadDe(tool_out).num * 10 = 999 * DisponibilidadDe(tool_out).den
    /\ NivelDe(tool_out) = 4

\* The direct call was one of the three date-ranged operations.
LlamadaConRango ==
    tool_in.op \in {"consultar_promesa_servicio", "consultar_afectaciones",
                    "calcular_disponibilidad"}

\* No start date was supplied: None or the empty string.
SinFechaInicial == ~tool_in.ini.def \/ tool_in.ini.val = <<>>

\* C12 as stated: when a date-ranged operation is called with no start date,
\* every query it executes runs from January 1 of the current year to today,
\* whether or not an end date was supplied: there is a day of the call, one of
\* those the clock answered, whose year starts the range and which ends it.
C12_Original ==
    LlamadaConRango /\ SinFechaInicial =>
        \E d \in {tool_in.reloj[1], tool_in.reloj[2]} :
           /\ Len(tool_params) >= 1
           /\ \A i \in DOMAIN tool_params :
                 /\ tool_params[i].fechaINI = Algo(Strftime(Fecha(d.anio, 1, 1)))
                 /\ tool_params[i].fechaFIN = Algo(Strftime(d))

\* C13 as stated: the text of a reply that carries operation requests is never
\* the result, so a run that ends normally returns the text of its terminating
\* reply, or the fallback sentence when that reply has empty or non-string
\* content.
C13_Original ==
    pc = "returned" =>
        retorno = Retorna(IF EsTextoNoVacio(UltimoMensaje.content)
                          THEN UltimoMensaje.content ELSE Str(Fallback))

\* C14 as stated: every query of a date-ranged operation is executed with both
\* range bounds defined, and when a start date is supplied and the end date is
\* omitted the end bound is the day of the call.
C14_Original ==
    LlamadaConRango =>
        \A i \in DOMAIN tool_params :
           /\ tool_params[i].fechaINI.def
           /\ tool_params[i].fechaFIN.def
           /\ ~SinFechaInicial /\ ~tool_in.fin.def =>
                 tool_params[i].fechaFIN = Algo(Strftime(tool_in.reloj[2]))

====
